---- MODULE Spec2Model ----
(***************************************************************************)
(* Rose City check-in dashboard: roster synchronisation and toggles.       *)
(*                                                                         *)
(* Three builds of the App component live in the repository:               *)
(*   - src/src/App.js       realtime build (Firebase listener + set)       *)
(*   - src/unnamed/part_001 polling build (shared localStorage, 5 s timer) *)
(*   - src/unnamed/part_000 local-only build (shirt tracking)              *)
(* Each build has its own next-state relation over the same variables.     *)
(*                                                                         *)
(* Conventions: JS arrays are sequences, so a JS index i is i+1 here and   *)
(* findIndex's -1 is NotFound (0). A string is the sequence of its         *)
(* characters. React state setters called in one callback are applied      *)
(* together; the sync effect (deps participants, staff, isLoaded) then     *)
(* runs as its own step, before any other handler of that instance.        *)
(***************************************************************************)
EXTENDS Naturals, Integers, Sequences, FiniteSets, TLC

VARIABLES
    participants,   \* [client -> roster]   useState([])
    staff,          \* [client -> roster]   useState([])
    isLoaded,       \* [client -> BOOLEAN]  useState(false)
    lastSync,       \* [client -> NoTime | time]  useState(null)
    searchQuery,    \* [client -> string]   useState('')
    phase,          \* [client -> "new" | "run" | "gone"]  before / after the mount
                    \*                      effect, and after the component is unmounted
    effectDue,      \* [client -> BOOLEAN]  a dependency of the sync effect changed
    thrown,         \* [client -> BOOLEAN]  a handler raised an uncaught error
    firebaseDb,     \* [client -> NoDb | "db"]  useState(null), realtime build
    listening,      \* [client -> BOOLEAN]  onValue subscription (realtime build) or
                    \*                      interval timer (polling build) is active
    notified,       \* [client -> BOOLEAN]  a value event is waiting for the callback
    inflight,       \* [client -> Seq(snapshot)]  set() calls not yet settled
    remote,         \* the 'roseCityData' document: None or Some(snapshot)
    localStorage,   \* [device -> [key -> None | Some(item)]]
    csv,            \* the two CSV files: [participants, staff -> rows]
    now             \* Date.now()

vars == <<participants, staff, isLoaded, lastSync, searchQuery, phase,
          effectDue, thrown, firebaseDb, listening, notified, inflight,
          remote, localStorage, csv, now>>

----------------------------------------------------------------------------
(* Bounds *)

MaxTime == 2
MaxInflight == 1

\* Two running instances (browser tabs or devices).
Clients == {1, 2}

\* null / undefined, by the kind of value that is missing
None == {}              \* no document, no storage item, no stored collection
Some(x) == {x}
Get(o) == CHOOSE x \in o : TRUE
NoDb == "null"          \* firebaseDb: useState(null)
NoTime == 0             \* lastSync: useState(null); `!lastSync` holds for it
NotFound == 0           \* findIndex's -1

----------------------------------------------------------------------------
(* Strings *)

Lower(ch) ==
    CASE ch = "A" -> "a"
      [] ch = "B" -> "b"
      [] ch = "C" -> "c"
      [] ch = "O" -> "o"
      [] OTHER -> ch

toLowerCase(s) == [i \in 1..Len(s) |-> Lower(s[i])]

includes(s, q) ==
    \E k \in 0..(Len(s) - Len(q)) : \A j \in 1..Len(q) : s[k + j] = q[j]

\* The search box offers the empty query and two one-letter queries.
Queries == { <<>>, <<"b">>, <<"O">> }

----------------------------------------------------------------------------
(* CSV files, as rows of header -> cell *)

Al == <<"A", "l">>
Bo == <<"B", "o">>
Cy == <<"C", "y">>
Di == <<"D", "i">>

\* A roster of two people, for the runs with two instances.
SmallFiles ==
    [participants |-> << [Name |-> Al] >>,
     staff        |-> << [Name |-> Cy, ShirtNeeded |-> "Yes"] >>]

\* A roster whose lists can be narrowed by the search box.
SearchFiles ==
    [participants |-> << [Name |-> Al], [Name |-> Bo] >>,
     staff        |-> << [Name |-> Cy, ShirtNeeded |-> "Yes"],
                         [Name |-> Di, ShirtNeeded |-> "No"] >>]

\* A staff file in which a member who needs no shirt comes before one who
\* does and whose name the search box can single out.
Ob == <<"O", "b">>

ShirtFiles ==
    [participants |-> << [Name |-> Al], [Name |-> Bo] >>,
     staff        |-> << [Name |-> Di, ShirtNeeded |-> "No"],
                         [Name |-> Ob, ShirtNeeded |-> "Yes"] >>]

----------------------------------------------------------------------------
(* Rosters *)

\* JS "||" on a possibly missing value: the right operand when the left is missing.
OrElse(o, y) == IF o = None THEN y ELSE Get(o)

\* Array.prototype.findIndex(p => p.Name === name): the first match, or -1.
findIndex(list, name) ==
    IF \E i \in 1..Len(list) : list[i].Name = name
    THEN CHOOSE i \in 1..Len(list) :
            /\ list[i].Name = name
            /\ \A j \in 1..(i - 1) : list[j].Name # name
    ELSE NotFound

\* A match that compares the letters as they are typed.
NameMatchesExactCase(person, query) == includes(person.Name, query)

\* p.Name.toLowerCase().includes(searchQuery.toLowerCase())
NameMatches(person, query) == includes(toLowerCase(person.Name), toLowerCase(query))

\* `const updated = [...list]; updated[index].checkedIn = !updated[index].checkedIn`
\* reads a property of undefined, and so throws, when index is out of range.
IndexThrows(list, index) == index \notin 1..Len(list)

\* A toggle that can only check in: `updated[index].checkedIn = true`.
FlipCheckedInOnly(list, index) == [list EXCEPT ![index].checkedIn = TRUE]

\* `updated[index].checkedIn = !updated[index].checkedIn` on the copy.
FlipCheckedIn(list, index) == [list EXCEPT ![index].checkedIn = ~@]

\* JSON.stringify / JSON.parse through a storage item.
stringify(value) == Some([json |-> value])
parse(item) == Get(item).json

----------------------------------------------------------------------------
(* Realtime build: src/src/App.js *)

FbKeys == {"RoseCityCheckin_participants", "RoseCityCheckin_staff"}

\* parseCSV(file).map(p => ({...p, checkedIn: false, shirtDistributed: false}))
FbTag(row) == [checkedIn |-> FALSE, shirtDistributed |-> FALSE] @@ row
FbParsed(rows) == [i \in 1..Len(rows) |-> FbTag(rows[i])]

\* The database keeps no empty array: an empty collection reads back absent.
FbStored(data) ==
    Some([participants |-> IF data.participants = <<>> THEN None
                                                          ELSE Some(data.participants),
          staff        |-> IF data.staff = <<>> THEN None ELSE Some(data.staff),
          timestamp    |-> data.timestamp])

\* The values the onValue callback closes over: loadData is called by the
\* mount effect, so they are those of the first render.
FbClosureParticipants == <<>>
FbClosureStaff == <<>>

\* loadFromCSV that sets the participants as soon as their file is parsed,
\* before the staff file is read.
FbLoadFromCSVPartial(c, readOk) ==
    IF readOk
    THEN /\ participants' = [participants EXCEPT ![c] = FbParsed(csv.participants)]
         /\ staff' = [staff EXCEPT ![c] = FbParsed(csv.staff)]
         /\ isLoaded' = [isLoaded EXCEPT ![c] = TRUE]
         /\ effectDue' = [effectDue EXCEPT ![c] = TRUE]
    ELSE /\ participants' = [participants EXCEPT ![c] = FbParsed(csv.participants)]
         /\ effectDue' = [effectDue EXCEPT ![c] = TRUE]
         /\ UNCHANGED <<staff, isLoaded>>

\* loadFromCSV with setIsLoaded(true) in a finally block: loaded even when
\* the read threw.
FbLoadFromCSVFinally(c, readOk) ==
    IF readOk
    THEN /\ participants' = [participants EXCEPT ![c] = FbParsed(csv.participants)]
         /\ staff' = [staff EXCEPT ![c] = FbParsed(csv.staff)]
         /\ isLoaded' = [isLoaded EXCEPT ![c] = TRUE]
         /\ effectDue' = [effectDue EXCEPT ![c] = TRUE]
    ELSE /\ isLoaded' = [isLoaded EXCEPT ![c] = TRUE]
         /\ effectDue' = [effectDue EXCEPT ![c] = TRUE]
         /\ UNCHANGED <<participants, staff>>

\* loadFromCSV: both files read, or the read throws and nothing is set.
FbLoadFromCSV(c, readOk) ==
    IF readOk
    THEN /\ participants' = [participants EXCEPT ![c] = FbParsed(csv.participants)]
         /\ staff' = [staff EXCEPT ![c] = FbParsed(csv.staff)]
         /\ isLoaded' = [isLoaded EXCEPT ![c] = TRUE]
         /\ effectDue' = [effectDue EXCEPT ![c] = TRUE]
    ELSE UNCHANGED <<participants, staff, isLoaded, effectDue>>

\* A loadLocalData that goes to the CSV files without looking at the cache.
FbLoadLocalDataCsvOnly(c, readOk) == FbLoadFromCSV(c, readOk)

\* loadLocalData: both cached collections present, else CSV.
FbLoadLocalData(c, readOk) ==
    LET savedParticipants == localStorage[c]["RoseCityCheckin_participants"]
        savedStaff == localStorage[c]["RoseCityCheckin_staff"]
    IN  IF savedParticipants # None /\ savedStaff # None
        THEN /\ participants' = [participants EXCEPT ![c] = parse(savedParticipants)]
             /\ staff' = [staff EXCEPT ![c] = parse(savedStaff)]
             /\ isLoaded' = [isLoaded EXCEPT ![c] = TRUE]
             /\ effectDue' = [effectDue EXCEPT ![c] = TRUE]
        ELSE FbLoadFromCSV(c, readOk)

\* syncToFirebase with the cache written after the awaited set(), so only
\* once it has resolved: nothing is cached when the call is issued.
FbSyncToFirebaseRemoteFirst(c, participantsData, staffData, db) ==
    IF (IF db = NoDb THEN firebaseDb[c] ELSE db) = NoDb
    THEN /\ localStorage' = [localStorage EXCEPT
                ![c]["RoseCityCheckin_participants"] = stringify(participantsData),
                ![c]["RoseCityCheckin_staff"] = stringify(staffData)]
         /\ UNCHANGED inflight
    ELSE /\ UNCHANGED localStorage
         /\ inflight' = [inflight EXCEPT ![c] = Append(@,
                [participants |-> participantsData, staff |-> staffData,
                 timestamp |-> now])]

\* syncToFirebase(participantsData, staffData, db): without a database the
\* collections go to the cache only; with one, the snapshot is stamped, the
\* collections are cached and set() is issued (its outcome comes later).
FbSyncToFirebase(c, participantsData, staffData, db) ==
    /\ localStorage' = [localStorage EXCEPT
           ![c]["RoseCityCheckin_participants"] = stringify(participantsData),
           ![c]["RoseCityCheckin_staff"] = stringify(staffData)]
    /\ IF (IF db = NoDb THEN firebaseDb[c] ELSE db) = NoDb
       THEN UNCHANGED inflight
       ELSE inflight' = [inflight EXCEPT ![c] = Append(@,
               [participants |-> participantsData, staff |-> staffData,
                timestamp |-> now])]

\* The mount effect: initializeApp/getDatabase succeed, the database handle is
\* kept and loadData subscribes; or they throw and the local data is loaded.
FbMount(c) ==
    /\ phase[c] = "new"
    /\ phase' = [phase EXCEPT ![c] = "run"]
    /\ \E initOk \in BOOLEAN :
         IF initOk
         THEN /\ firebaseDb' = [firebaseDb EXCEPT ![c] = "db"]
              /\ listening' = [listening EXCEPT ![c] = TRUE]
              /\ notified' = [notified EXCEPT ![c] = TRUE]
              /\ UNCHANGED <<participants, staff, isLoaded, effectDue>>
         ELSE /\ \E readOk \in BOOLEAN : FbLoadLocalData(c, readOk)
              /\ UNCHANGED <<firebaseDb, listening, notified>>
    /\ UNCHANGED <<lastSync, searchQuery, thrown, inflight, remote, localStorage, csv, now>>

\* `setLastSync(Date.now())` in place of the snapshot's own timestamp.
FbSnapshotTimeNow(data) == now

\* `data.timestamp || Date.now()`
FbSnapshotTime(data) == IF data.timestamp = NoTime THEN now ELSE data.timestamp

\* The reconciliation decision of the onValue callback: `if (data)`.
FbAdopts(c, data) == data # None

\* The onValue callback on a value event. After a CSV load it tests
\* `participants.length > 0 || staff.length > 0` on the collections it closes
\* over before pushing them.
FbOnValue(c) ==
    /\ phase[c] = "run" /\ listening[c] /\ notified[c] /\ ~effectDue[c]
    /\ notified' = [notified EXCEPT ![c] = FALSE]
    /\ LET snapshot == remote
           data == Get(snapshot)
       IN
       IF FbAdopts(c, snapshot)
       THEN /\ participants' = [participants EXCEPT ![c] = OrElse(data.participants, <<>>)]
            /\ staff' = [staff EXCEPT ![c] = OrElse(data.staff, <<>>)]
            /\ lastSync' = [lastSync EXCEPT ![c] = FbSnapshotTime(data)]
            /\ isLoaded' = [isLoaded EXCEPT ![c] = TRUE]
            /\ effectDue' = [effectDue EXCEPT ![c] = TRUE]
            /\ UNCHANGED <<inflight, localStorage>>
       ELSE /\ \E readOk \in BOOLEAN : FbLoadFromCSV(c, readOk)
            /\ IF Len(FbClosureParticipants) > 0 \/ Len(FbClosureStaff) > 0
               THEN /\ Len(inflight[c]) < MaxInflight
                    /\ FbSyncToFirebase(c, FbClosureParticipants, FbClosureStaff, "db")
               ELSE UNCHANGED <<inflight, localStorage>>
            /\ UNCHANGED lastSync
    /\ UNCHANGED <<searchQuery, phase, thrown, firebaseDb, listening, remote, csv, now>>

\* The onValue error callback: the subscription is cancelled, local data loaded.
FbOnError(c) ==
    /\ phase[c] = "run" /\ listening[c] /\ ~effectDue[c]
    /\ listening' = [listening EXCEPT ![c] = FALSE]
    /\ notified' = [notified EXCEPT ![c] = FALSE]
    /\ \E readOk \in BOOLEAN : FbLoadLocalData(c, readOk)
    /\ UNCHANGED <<lastSync, searchQuery, phase, thrown, firebaseDb, inflight,
                   remote, localStorage, csv, now>>

\* A sync effect that pushes only once the instance has a lastSync.
FbSyncEffectAfterFirstSync(c) ==
    /\ effectDue[c]
    /\ effectDue' = [effectDue EXCEPT ![c] = FALSE]
    /\ IF isLoaded[c] /\ firebaseDb[c] # NoDb /\ lastSync[c] # NoTime
          /\ (Len(participants[c]) > 0 \/ Len(staff[c]) > 0)
       THEN /\ Len(inflight[c]) < MaxInflight
            /\ FbSyncToFirebase(c, participants[c], staff[c], firebaseDb[c])
       ELSE UNCHANGED <<inflight, localStorage>>
    /\ UNCHANGED <<participants, staff, isLoaded, lastSync, searchQuery, phase,
                   thrown, firebaseDb, listening, notified, remote, csv, now>>

\* The sync effect, run after a render in which participants, staff or
\* isLoaded changed.
FbSyncEffect(c) ==
    /\ effectDue[c]
    /\ effectDue' = [effectDue EXCEPT ![c] = FALSE]
    /\ IF isLoaded[c] /\ firebaseDb[c] # NoDb
          /\ (Len(participants[c]) > 0 \/ Len(staff[c]) > 0)
       THEN /\ Len(inflight[c]) < MaxInflight
            /\ FbSyncToFirebase(c, participants[c], staff[c], firebaseDb[c])
       ELSE UNCHANGED <<inflight, localStorage>>
    /\ UNCHANGED <<participants, staff, isLoaded, lastSync, searchQuery, phase,
                   thrown, firebaseDb, listening, notified, remote, csv, now>>

\* A write that folds the stored check-ins into the written rosters.
FbSetMerged(document, dataToSync) ==
    LET Fold(old, new) ==
            [i \in 1..Len(new) |->
                [new[i] EXCEPT !.checkedIn = @ \/ (i <= Len(old) /\ old[i].checkedIn)]]
    IN  IF document = None
        THEN FbStored(dataToSync)
        ELSE FbStored([participants |-> Fold(OrElse(Get(document).participants, <<>>),
                                             dataToSync.participants),
                       staff |-> Fold(OrElse(Get(document).staff, <<>>), dataToSync.staff),
                       timestamp |-> dataToSync.timestamp])

\* set(ref, value) replaces the whole document, whatever it held.
FbSet(document, dataToSync) == FbStored(dataToSync)

\* `await set(ref(db, 'roseCityData'), dataToSync)` resolves: the document is
\* replaced, every subscriber whose value changed is notified, and the
\* continuation runs setLastSync(timestamp).
FbSetResolved(c) ==
    /\ inflight[c] # <<>>
    /\ LET dataToSync == Head(inflight[c]) IN
       /\ remote' = FbSet(remote, dataToSync)
       /\ notified' = [d \in Clients |->
                          listening[d] /\ (notified[d] \/ remote' # remote)]
       /\ lastSync' = [lastSync EXCEPT ![c] = dataToSync.timestamp]
    /\ inflight' = [inflight EXCEPT ![c] = Tail(@)]
    /\ UNCHANGED <<participants, staff, isLoaded, searchQuery, phase, effectDue,
                   thrown, firebaseDb, listening, localStorage, csv, now>>

\* A catch block that also runs setLastSync(timestamp).
FbSetRejectedAdvances(c) ==
    /\ inflight[c] # <<>>
    /\ inflight' = [inflight EXCEPT ![c] = Tail(@)]
    /\ lastSync' = [lastSync EXCEPT ![c] = Head(inflight[c]).timestamp]
    /\ UNCHANGED <<participants, staff, isLoaded, searchQuery, phase,
                   effectDue, thrown, firebaseDb, listening, notified, remote,
                   localStorage, csv, now>>

\* The set() rejects: the catch block logs and returns false.
FbSetRejected(c) ==
    /\ inflight[c] # <<>>
    /\ inflight' = [inflight EXCEPT ![c] = Tail(@)]
    /\ UNCHANGED <<participants, staff, isLoaded, lastSync, searchQuery, phase,
                   effectDue, thrown, firebaseDb, listening, notified, remote,
                   localStorage, csv, now>>

\* toggleStatus(type, index)
toggleStatus(c, type, index) ==
    LET list == IF type = "participant" THEN participants[c] ELSE staff[c] IN
    IF IndexThrows(list, index)
    THEN /\ thrown' = [thrown EXCEPT ![c] = TRUE]
         /\ UNCHANGED <<participants, staff, effectDue>>
    ELSE /\ IF type = "participant"
            THEN /\ participants' = [participants EXCEPT ![c] = FlipCheckedIn(list, index)]
                 /\ UNCHANGED staff
            ELSE /\ staff' = [staff EXCEPT ![c] = FlipCheckedIn(list, index)]
                 /\ UNCHANGED participants
         /\ effectDue' = [effectDue EXCEPT ![c] = TRUE]
         /\ UNCHANGED thrown

\* The four lists of the dashboard: not-checked-in and checked-in people of a
\* collection, narrowed by the search box when it is not empty.
FbShown(c, type, checked) ==
    LET list == IF type = "participant" THEN participants[c] ELSE staff[c]
        Keep(person) == /\ person.checkedIn = checked
                        /\ (searchQuery[c] = <<>> \/ NameMatches(person, searchQuery[c]))
    IN  SelectSeq(list, Keep)

\* PersonListItem: the index is looked up by name in the collection.
FbPersonIndex(c, type, person) ==
    findIndex(IF type = "participant" THEN participants[c] ELSE staff[c], person.Name)

\* Click on the Check In / Undo button of the PersonListItem of `person`.
FbClickItem(c, type, person) ==
    /\ phase[c] = "run" /\ ~effectDue[c]
    /\ toggleStatus(c, type, FbPersonIndex(c, type, person))
    /\ UNCHANGED <<isLoaded, lastSync, searchQuery, phase, firebaseDb, listening,
                   notified, inflight, remote, localStorage, csv, now>>

\* A click on any item of the four lists.
FbClickToggle(c) ==
    \E type \in {"participant", "staff"}, checked \in BOOLEAN :
       \E k \in 1..Len(FbShown(c, type, checked)) :
          FbClickItem(c, type, FbShown(c, type, checked)[k])

\* A check-in toggle requested for a name that no record of the collection
\* carries: PersonListItem passes what findIndex returns to toggleStatus.
Nobody == <<"Z", "z">>

FbToggleMissing(c) ==
    \E type \in {"participant", "staff"} : FbClickItem(c, type, [Name |-> Nobody])

\* The component is unmounted while nothing of it is pending. The mount effect
\* returned no cleanup function and the function onValue returned was not
\* kept, so the subscription stays as it is.
FbUnmount(c) ==
    /\ phase[c] = "run" /\ ~effectDue[c] /\ inflight[c] = <<>>
    /\ phase' = [phase EXCEPT ![c] = "gone"]
    /\ UNCHANGED <<participants, staff, isLoaded, lastSync, searchQuery, effectDue,
                   thrown, firebaseDb, listening, notified, inflight, remote,
                   localStorage, csv, now>>

\* The onValue callback of an unmounted component: its setters do nothing;
\* with no document it still runs loadFromCSV and then tests the empty
\* collections it closes over, so it pushes nothing.
FbOnValueUnmounted(c) ==
    /\ phase[c] = "gone" /\ listening[c] /\ notified[c]
    /\ notified' = [notified EXCEPT ![c] = FALSE]
    /\ IF ~FbAdopts(c, remote)
          /\ (Len(FbClosureParticipants) > 0 \/ Len(FbClosureStaff) > 0)
       THEN /\ Len(inflight[c]) < MaxInflight
            /\ FbSyncToFirebase(c, FbClosureParticipants, FbClosureStaff, "db")
       ELSE UNCHANGED <<inflight, localStorage>>
    /\ UNCHANGED <<participants, staff, isLoaded, lastSync, searchQuery, phase,
                   effectDue, thrown, firebaseDb, listening, remote, csv, now>>

\* window.location.reload(): the page is loaded again, a new instance with
\* every useState at its initial value and the mount effect still to run. The
\* subscription and the continuations of pending set() calls go with the page.
FbReload(c) ==
    /\ participants' = [participants EXCEPT ![c] = <<>>]
    /\ staff' = [staff EXCEPT ![c] = <<>>]
    /\ isLoaded' = [isLoaded EXCEPT ![c] = FALSE]
    /\ lastSync' = [lastSync EXCEPT ![c] = NoTime]
    /\ searchQuery' = [searchQuery EXCEPT ![c] = <<>>]
    /\ phase' = [phase EXCEPT ![c] = "new"]
    /\ effectDue' = [effectDue EXCEPT ![c] = FALSE]
    /\ thrown' = [thrown EXCEPT ![c] = FALSE]
    /\ firebaseDb' = [firebaseDb EXCEPT ![c] = NoDb]
    /\ listening' = [listening EXCEPT ![c] = FALSE]
    /\ inflight' = [inflight EXCEPT ![c] = <<>>]

\* A reset that removes the cached collections and leaves the document alone.
FbResetLocalOnly(c) ==
    /\ phase[c] = "run" /\ ~effectDue[c]
    /\ localStorage' = [localStorage EXCEPT
           ![c]["RoseCityCheckin_participants"] = None,
           ![c]["RoseCityCheckin_staff"] = None]
    /\ notified' = [notified EXCEPT ![c] = FALSE]
    /\ FbReload(c)
    /\ UNCHANGED <<remote, csv, now>>

\* 'Reset All Data', confirmed: both cached collections are removed, with a
\* database handle set(ref, null) deletes the document (after any set() this
\* page still had pending on the connection), and the page is reloaded.
FbReset(c) ==
    /\ phase[c] = "run" /\ ~effectDue[c]
    /\ localStorage' = [localStorage EXCEPT
           ![c]["RoseCityCheckin_participants"] = None,
           ![c]["RoseCityCheckin_staff"] = None]
    /\ IF firebaseDb[c] # NoDb
       THEN /\ remote' = None
            /\ notified' = [d \in Clients |->
                   d # c /\ listening[d] /\ (notified[d] \/ remote' # remote)]
       ELSE /\ notified' = [notified EXCEPT ![c] = FALSE]
            /\ UNCHANGED remote
    /\ FbReload(c)
    /\ UNCHANGED <<csv, now>>

\* Time passes.
Tick ==
    /\ now < MaxTime
    /\ now' = now + 1
    /\ UNCHANGED <<participants, staff, isLoaded, lastSync, searchQuery, phase,
                   effectDue, thrown, firebaseDb, listening, notified, inflight,
                   remote, localStorage, csv>>

----------------------------------------------------------------------------
(* Polling build: src/unnamed/part_001. Its instances are tabs of one      *)
(* browser and share one localStorage.                                     *)

STORAGE_KEY == "roseCityData_v1"
PollKeys == {STORAGE_KEY, "roseCity_participants", "roseCity_staff"}
Browser == 1

\* parseCSV(file).map(p => ({...p, checkedIn: false}))
PollTag(row) == [checkedIn |-> FALSE] @@ row
PollParsed(rows) == [i \in 1..Len(rows) |-> PollTag(rows[i])]

\* checkServerData is handed to setInterval by the mount effect (deps []), so
\* the state it reads on every tick is the state of the first render.
PollClosure(c) ==
    [lastSync |-> NoTime, isLoaded |-> FALSE, participants |-> <<>>, staff |-> <<>>]

\* `!lastSync || parsedData.timestamp > lastSync`
PollNewer(seen, timestamp) == seen = NoTime \/ timestamp > seen

\* SESSION_ID, the origin an instance declares in what it writes: a string
\* made from the clock when the component renders; the instance stands for it.
SESSION_ID(c) == c

\* syncToCloud(participantsData, staffData) on top of the storage `store`.
PollSyncToCloud(c, store, participantsData, staffData) ==
    /\ localStorage' = [localStorage EXCEPT ![Browser] =
           [store EXCEPT ![STORAGE_KEY] =
               stringify([participants |-> participantsData, staff |-> staffData,
                          timestamp |-> now, sessionId |-> SESSION_ID(c)])]]
    /\ lastSync' = [lastSync EXCEPT ![c] = now]

\* A catch block that also empties the roster.
PollCaughtClears(c) ==
    /\ participants' = [participants EXCEPT ![c] = <<>>]
    /\ staff' = [staff EXCEPT ![c] = <<>>]
    /\ effectDue' = [effectDue EXCEPT ![c] = TRUE]
    /\ UNCHANGED <<lastSync, isLoaded, localStorage>>

\* `catch (error) { console.error(...) }` around the whole of checkServerData.
PollCaught(c) ==
    UNCHANGED <<participants, staff, lastSync, isLoaded, effectDue, localStorage>>

\* checkServerData, as the first call and as every timer tick. Reading or
\* parsing the shared item may throw (pullOk), and so may reading the files.
checkServerData(c) ==
    LET seen == PollClosure(c)
        cloudData == localStorage[Browser][STORAGE_KEY]
        savedParticipants == localStorage[Browser]["roseCity_participants"]
        savedStaff == localStorage[Browser]["roseCity_staff"]
    IN
    \E pullOk \in BOOLEAN :
    IF ~pullOk
    THEN PollCaught(c)
    ELSE
    IF cloudData # None /\ PollNewer(seen.lastSync, parse(cloudData).timestamp)
    THEN /\ participants' = [participants EXCEPT ![c] = parse(cloudData).participants]
         /\ staff' = [staff EXCEPT ![c] = parse(cloudData).staff]
         /\ lastSync' = [lastSync EXCEPT ![c] = parse(cloudData).timestamp]
         /\ isLoaded' = [isLoaded EXCEPT ![c] = TRUE]
         /\ effectDue' = [effectDue EXCEPT ![c] = TRUE]
         /\ UNCHANGED localStorage
    ELSE IF ~seen.isLoaded
    THEN IF savedParticipants # None /\ savedStaff # None
         THEN /\ participants' = [participants EXCEPT ![c] = parse(savedParticipants)]
              /\ staff' = [staff EXCEPT ![c] = parse(savedStaff)]
              /\ isLoaded' = [isLoaded EXCEPT ![c] = TRUE]
              /\ effectDue' = [effectDue EXCEPT ![c] = TRUE]
              /\ PollSyncToCloud(c, localStorage[Browser], seen.participants, seen.staff)
         ELSE \E readOk \in BOOLEAN :
              IF readOk
              THEN /\ participants' = [participants EXCEPT ![c] = PollParsed(csv.participants)]
                   /\ staff' = [staff EXCEPT ![c] = PollParsed(csv.staff)]
                   /\ isLoaded' = [isLoaded EXCEPT ![c] = TRUE]
                   /\ effectDue' = [effectDue EXCEPT ![c] = TRUE]
                   /\ PollSyncToCloud(c, localStorage[Browser], seen.participants, seen.staff)
              ELSE PollCaught(c)
    ELSE UNCHANGED <<participants, staff, lastSync, isLoaded, effectDue, localStorage>>

\* The mount effect: the first checkServerData, then setInterval.
PollMount(c) ==
    /\ phase[c] = "new"
    /\ phase' = [phase EXCEPT ![c] = "run"]
    /\ checkServerData(c)
    /\ listening' = [listening EXCEPT ![c] = TRUE]
    /\ UNCHANGED <<searchQuery, thrown, firebaseDb, notified, inflight,
                   remote, csv, now>>

\* A tick of the 5 s timer.
PollTick(c) ==
    /\ phase[c] = "run" /\ listening[c] /\ ~effectDue[c]
    /\ checkServerData(c)
    /\ UNCHANGED <<searchQuery, phase, thrown, firebaseDb, listening, notified,
                   inflight, remote, csv, now>>

\* The sync effect: the two collections are saved, then pushed.
PollSyncEffect(c) ==
    /\ effectDue[c]
    /\ effectDue' = [effectDue EXCEPT ![c] = FALSE]
    /\ IF isLoaded[c] /\ (Len(participants[c]) > 0 \/ Len(staff[c]) > 0)
       THEN PollSyncToCloud(c,
                [localStorage[Browser] EXCEPT
                    !["roseCity_participants"] = stringify(participants[c]),
                    !["roseCity_staff"] = stringify(staff[c])],
                participants[c], staff[c])
       ELSE UNCHANGED <<localStorage, lastSync>>
    /\ UNCHANGED <<participants, staff, isLoaded, searchQuery, phase, thrown,
                   firebaseDb, listening, notified, inflight, remote, csv, now>>

\* PersonList shows the collection narrowed by the search box.
PollShown(c, type) ==
    LET list == IF type = "participant" THEN participants[c] ELSE staff[c]
        Keep(person) == NameMatches(person, searchQuery[c])
    IN  SelectSeq(list, Keep)

\* Click on the button of row `row` of PersonList: toggleStatus(type, index)
\* with the row's index in the shown list.
PollClickRowAt(c, type, row) ==
    /\ phase[c] = "run" /\ ~effectDue[c]
    /\ row \in 1..Len(PollShown(c, type))
    /\ toggleStatus(c, type, row)
    /\ UNCHANGED <<isLoaded, lastSync, searchQuery, phase, firebaseDb, listening,
                   notified, inflight, remote, localStorage, csv, now>>

PollClickRow(c) ==
    \E type \in {"participant", "staff"} :
       \E row \in 1..Len(PollShown(c, type)) : PollClickRowAt(c, type, row)

\* The not-checked-in people of a collection.
NotCheckedIn(list) ==
    LET Keep(person) == ~person.checkedIn IN SelectSeq(list, Keep)

\* Dashboard "Check In" button of a missing person (the first five are
\* listed): the index is looked up by name and -1 is skipped.
PollDashboardCheckIn(c, type, name) ==
    LET list == IF type = "participant" THEN participants[c] ELSE staff[c]
        personIndex == findIndex(list, name)
    IN  IF personIndex # NotFound
        THEN toggleStatus(c, type, personIndex)
        ELSE UNCHANGED <<participants, staff, effectDue, thrown>>

PollClickDashboard(c) ==
    /\ phase[c] = "run" /\ ~effectDue[c]
    /\ \E type \in {"participant", "staff"} :
         LET missing == NotCheckedIn(IF type = "participant" THEN participants[c]
                                                              ELSE staff[c])
         IN  \E k \in 1..Len(missing) :
                /\ k <= 5
                /\ PollDashboardCheckIn(c, type, missing[k].Name)
    /\ UNCHANGED <<isLoaded, lastSync, searchQuery, phase, firebaseDb, listening,
                   notified, inflight, remote, localStorage, csv, now>>

----------------------------------------------------------------------------
(* Local-only build with shirt tracking: src/unnamed/part_000              *)

\* parseCSV(file).map(p => ({...p, checkedIn: false, shirtProvided: false}))
LocalTagParticipant(row) == [checkedIn |-> FALSE, shirtProvided |-> FALSE] @@ row

\* Staff tagged like participants, whatever 'Shirt Needed' says.
LocalTagStaffNoRule(row) == [checkedIn |-> FALSE, shirtProvided |-> FALSE] @@ row

\* parseCSV(file).map(s => ({...s, checkedIn: false,
\*                           shirtProvided: s['Shirt Needed'] === 'No'}))
LocalTagStaff(row) ==
    [checkedIn |-> FALSE, shirtProvided |-> (row.ShirtNeeded = "No")] @@ row

\* The mount effect: loadData reads and tags both files, or logs the error.
LocalMount(c) ==
    /\ phase[c] = "new"
    /\ phase' = [phase EXCEPT ![c] = "run"]
    /\ \E readOk \in BOOLEAN :
         IF readOk
         THEN /\ participants' = [participants EXCEPT ![c] =
                    [i \in 1..Len(csv.participants) |-> LocalTagParticipant(csv.participants[i])]]
              /\ staff' = [staff EXCEPT ![c] =
                    [i \in 1..Len(csv.staff) |-> LocalTagStaff(csv.staff[i])]]
         ELSE UNCHANGED <<participants, staff>>
    /\ UNCHANGED <<isLoaded, lastSync, searchQuery, effectDue, thrown, firebaseDb,
                   listening, notified, inflight, remote, localStorage, csv, now>>

\* toggleParticipantStatus(index)
toggleParticipantStatus(c, index) ==
    IF IndexThrows(participants[c], index)
    THEN /\ thrown' = [thrown EXCEPT ![c] = TRUE]
         /\ UNCHANGED <<participants, staff>>
    ELSE /\ participants' = [participants EXCEPT ![c] = FlipCheckedIn(@, index)]
         /\ UNCHANGED <<staff, thrown>>

\* toggleStaffStatus(index)
toggleStaffStatus(c, index) ==
    IF IndexThrows(staff[c], index)
    THEN /\ thrown' = [thrown EXCEPT ![c] = TRUE]
         /\ UNCHANGED <<participants, staff>>
    ELSE /\ staff' = [staff EXCEPT ![c] = FlipCheckedIn(@, index)]
         /\ UNCHANGED <<participants, thrown>>

\* toggleParticipantShirtStatus(index)
toggleParticipantShirtStatus(c, index) ==
    IF IndexThrows(participants[c], index)
    THEN /\ thrown' = [thrown EXCEPT ![c] = TRUE]
         /\ UNCHANGED <<participants, staff>>
    ELSE /\ participants' = [participants EXCEPT ![c][index].shirtProvided = ~@]
         /\ UNCHANGED <<staff, thrown>>

\* toggleStaffShirtStatus without the test of 'Shirt Needed'.
toggleStaffShirtStatusUnguarded(c, index) ==
    IF IndexThrows(staff[c], index)
    THEN /\ thrown' = [thrown EXCEPT ![c] = TRUE]
         /\ UNCHANGED <<participants, staff>>
    ELSE /\ staff' = [staff EXCEPT ![c][index].shirtProvided = ~@]
         /\ UNCHANGED <<participants, thrown>>

\* toggleStaffShirtStatus(index): only for a record with 'Shirt Needed' = 'Yes'
toggleStaffShirtStatus(c, index) ==
    IF IndexThrows(staff[c], index)
    THEN /\ thrown' = [thrown EXCEPT ![c] = TRUE]
         /\ UNCHANGED <<participants, staff>>
    ELSE IF staff[c][index].ShirtNeeded = "Yes"
    THEN /\ staff' = [staff EXCEPT ![c][index].shirtProvided = ~@]
         /\ UNCHANGED <<participants, thrown>>
    ELSE UNCHANGED <<participants, staff, thrown>>

\* filteredParticipants / filteredStaff: the rows of the check-in tables.
LocalShown(c, type) ==
    LET list == IF type = "participant" THEN participants[c] ELSE staff[c]
        Keep(person) == NameMatches(person, searchQuery[c])
    IN  SelectSeq(list, Keep)

\* Click on the Check In / Undo button of a table row: the handler gets the
\* row's index in the shown list.
LocalClickRowAt(c, type, row) ==
    /\ phase[c] = "run"
    /\ row \in 1..Len(LocalShown(c, type))
    /\ IF type = "participant" THEN toggleParticipantStatus(c, row)
                               ELSE toggleStaffStatus(c, row)
    /\ UNCHANGED <<isLoaded, lastSync, searchQuery, phase, effectDue, firebaseDb,
                   listening, notified, inflight, remote, localStorage, csv, now>>

LocalClickRow(c) ==
    \E type \in {"participant", "staff"} :
       \E row \in 1..Len(LocalShown(c, type)) : LocalClickRowAt(c, type, row)

\* The Give Shirt / Undo Shirt button of a row is rendered for every
\* participant and for staff with 'Shirt Needed' = 'Yes', and is disabled
\* while the person of that row is not checked in.
LocalShirtButtonEnabled(c, type, row) ==
    LET person == LocalShown(c, type)[row] IN
    /\ type = "staff" => person.ShirtNeeded = "Yes"
    /\ person.checkedIn

\* Click on an enabled shirt button: the handler gets the row's index.
LocalClickShirtAt(c, type, row) ==
    /\ phase[c] = "run"
    /\ row \in 1..Len(LocalShown(c, type))
    /\ LocalShirtButtonEnabled(c, type, row)
    /\ IF type = "participant" THEN toggleParticipantShirtStatus(c, row)
                               ELSE toggleStaffShirtStatus(c, row)
    /\ UNCHANGED <<isLoaded, lastSync, searchQuery, phase, effectDue, firebaseDb,
                   listening, notified, inflight, remote, localStorage, csv, now>>

LocalClickShirt(c) ==
    \E type \in {"participant", "staff"} :
       \E row \in 1..Len(LocalShown(c, type)) : LocalClickShirtAt(c, type, row)

\* The Check In buttons of the missing-people panel and of the person
\* dialog: the index is looked up by name and -1 is skipped.
LocalCheckInByName(c, type, name) ==
    LET list == IF type = "participant" THEN participants[c] ELSE staff[c]
        personIndex == findIndex(list, name)
    IN  IF personIndex # NotFound
        THEN IF type = "participant" THEN toggleParticipantStatus(c, personIndex)
                                     ELSE toggleStaffStatus(c, personIndex)
        ELSE UNCHANGED <<participants, staff, thrown>>

\* The dialog is opened from a table row, so for any shown person.
LocalClickDialog(c) ==
    /\ phase[c] = "run"
    /\ \E type \in {"participant", "staff"} :
         \E row \in 1..Len(LocalShown(c, type)) :
            LocalCheckInByName(c, type, LocalShown(c, type)[row].Name)
    /\ UNCHANGED <<isLoaded, lastSync, searchQuery, phase, effectDue, firebaseDb,
                   listening, notified, inflight, remote, localStorage, csv, now>>

\* The dashboard metrics, computed on every render.
totalParticipants(c) == Len(participants[c])

checkedInParticipants(c) ==
    LET Keep(p) == p.checkedIn IN Len(SelectSeq(participants[c], Keep))

totalStaff(c) == Len(staff[c])

checkedInStaff(c) ==
    LET Keep(s) == s.checkedIn IN Len(SelectSeq(staff[c], Keep))

notCheckedInParticipants(c) == NotCheckedIn(participants[c])

notCheckedInStaff(c) == NotCheckedIn(staff[c])

\* A shirts-given count that takes every staff record with shirtProvided.
totalShirtsGivenAnyStaff(c) ==
    LET Given(p) == p.shirtProvided
    IN  Len(SelectSeq(participants[c], Given)) + Len(SelectSeq(staff[c], Given))

\* participants.filter(p => p.shirtProvided).length +
\* staff.filter(s => s.shirtProvided && s['Shirt Needed'] === 'Yes').length
totalShirtsGiven(c) ==
    LET Given(p) == p.shirtProvided
        GivenNeeded(s) == s.shirtProvided /\ s.ShirtNeeded = "Yes"
    IN  Len(SelectSeq(participants[c], Given)) + Len(SelectSeq(staff[c], GivenNeeded))

\* totalParticipants + staff.filter(s => s['Shirt Needed'] === 'Yes').length
totalShirtsNeeded(c) ==
    LET Needed(s) == s.ShirtNeeded = "Yes"
    IN  totalParticipants(c) + Len(SelectSeq(staff[c], Needed))

\* The page is loaded again: a new instance, every useState at its initial
\* value, the mount effect still to run.
LocalReload(c) ==
    /\ phase[c] = "run"
    /\ phase' = [phase EXCEPT ![c] = "new"]
    /\ participants' = [participants EXCEPT ![c] = <<>>]
    /\ staff' = [staff EXCEPT ![c] = <<>>]
    /\ searchQuery' = [searchQuery EXCEPT ![c] = <<>>]
    /\ thrown' = [thrown EXCEPT ![c] = FALSE]
    /\ UNCHANGED <<isLoaded, lastSync, effectDue, firebaseDb, listening, notified,
                   inflight, remote, localStorage, csv, now>>

\* Typing in the search box.
SetSearchQuery(c) ==
    /\ phase[c] = "run" /\ ~effectDue[c]
    /\ \E q \in Queries : q # searchQuery[c] /\ searchQuery' = [searchQuery EXCEPT ![c] = q]
    /\ UNCHANGED <<participants, staff, isLoaded, lastSync, phase, effectDue,
                   thrown, firebaseDb, listening, notified, inflight, remote,
                   localStorage, csv, now>>

----------------------------------------------------------------------------
AllKeys == FbKeys \cup PollKeys

Start ==
    /\ participants = [c \in Clients |-> <<>>]
    /\ staff = [c \in Clients |-> <<>>]
    /\ isLoaded = [c \in Clients |-> FALSE]
    /\ lastSync = [c \in Clients |-> NoTime]
    /\ searchQuery = [c \in Clients |-> <<>>]
    /\ phase = [c \in Clients |-> "new"]
    /\ effectDue = [c \in Clients |-> FALSE]
    /\ thrown = [c \in Clients |-> FALSE]
    /\ firebaseDb = [c \in Clients |-> NoDb]
    /\ listening = [c \in Clients |-> FALSE]
    /\ notified = [c \in Clients |-> FALSE]
    /\ inflight = [c \in Clients |-> <<>>]
    /\ remote = None
    /\ localStorage = [d \in Clients |-> [k \in AllKeys |-> None]]
    /\ now = 1

\* Two instances of the realtime build.
InitFb == Start /\ csv = SmallFiles

NextFb ==
    \/ \E c \in Clients : FbMount(c)
    \/ \E c \in Clients : FbOnValue(c)
    \/ \E c \in Clients : FbOnError(c)
    \/ \E c \in Clients : FbSyncEffect(c)
    \/ \E c \in Clients : FbSetResolved(c)
    \/ \E c \in Clients : FbSetRejected(c)
    \/ \E c \in Clients : FbClickToggle(c)
    \/ Tick

SpecFb == InitFb /\ [][NextFb]_vars

\* Two instances of the realtime build that have both loaded the roster and
\* are in sync with the document; each then makes one edit of its own
\* (instance 1 checks in Al, instance 2 checks in Cy) while it still shows
\* the loaded roster, and every set() resolves.
RaceStart ==
    LET roster == [participants |-> FbParsed(SmallFiles.participants),
                   staff |-> FbParsed(SmallFiles.staff)]
    IN
    /\ participants = [c \in Clients |-> roster.participants]
    /\ staff = [c \in Clients |-> roster.staff]
    /\ isLoaded = [c \in Clients |-> TRUE]
    /\ lastSync = [c \in Clients |-> 1]
    /\ searchQuery = [c \in Clients |-> <<>>]
    /\ phase = [c \in Clients |-> "run"]
    /\ effectDue = [c \in Clients |-> FALSE]
    /\ thrown = [c \in Clients |-> FALSE]
    /\ firebaseDb = [c \in Clients |-> "db"]
    /\ listening = [c \in Clients |-> TRUE]
    /\ notified = [c \in Clients |-> FALSE]
    /\ inflight = [c \in Clients |-> <<>>]
    /\ remote = FbStored([participants |-> roster.participants, staff |-> roster.staff,
                          timestamp |-> 1])
    /\ localStorage = [d \in Clients |-> [k \in AllKeys |->
           IF k = "RoseCityCheckin_participants" THEN stringify(roster.participants)
           ELSE IF k = "RoseCityCheckin_staff" THEN stringify(roster.staff)
           ELSE None]]
    /\ csv = SmallFiles
    /\ now = 1

RaceEdit(c) ==
    /\ participants[c] = FbParsed(csv.participants)
    /\ staff[c] = FbParsed(csv.staff)
    /\ IF c = 1 THEN FbClickItem(c, "participant", participants[c][1])
                ELSE FbClickItem(c, "staff", staff[c][1])

InitRace == RaceStart

NextRace ==
    \/ \E c \in Clients : RaceEdit(c)
    \/ \E c \in Clients : FbOnValue(c)
    \/ \E c \in Clients : FbSyncEffect(c)
    \/ \E c \in Clients : FbSetResolved(c)
    \/ Tick

SpecRace == InitRace /\ [][NextRace]_vars

\* The same run under the scheduling the runtime gives: a pending value event
\* is delivered, a due effect runs, a pending set() settles.
SpecRaceFair ==
    /\ SpecRace
    /\ \A c \in Clients : /\ WF_vars(FbOnValue(c))
                          /\ WF_vars(FbSyncEffect(c))
                          /\ WF_vars(FbSetResolved(c))

\* Two instances of the realtime build starting up against a database that
\* accepts every set() and whose listener reports no error, under the
\* scheduling the runtime gives: a pending value event is delivered, a due
\* effect runs, a pending set() resolves.
NextStartup ==
    \/ \E c \in Clients : FbMount(c)
    \/ \E c \in Clients : FbOnValue(c)
    \/ \E c \in Clients : FbSyncEffect(c)
    \/ \E c \in Clients : FbSetResolved(c)
    \/ \E c \in Clients : FbClickToggle(c)
    \/ Tick

SpecStartup ==
    /\ InitFb /\ [][NextStartup]_vars
    /\ \A c \in Clients : /\ WF_vars(FbOnValue(c))
                          /\ WF_vars(FbSyncEffect(c))
                          /\ WF_vars(FbSetResolved(c))

\* Two instances of the realtime build, either of which may be reset, against
\* a database that accepts every set().
NextReset ==
    \/ \E c \in Clients : FbMount(c)
    \/ \E c \in Clients : FbOnValue(c)
    \/ \E c \in Clients : FbSyncEffect(c)
    \/ \E c \in Clients : FbSetResolved(c)
    \/ \E c \in Clients : FbClickToggle(c)
    \/ \E c \in Clients : FbReset(c)
    \/ Tick

SpecReset == InitFb /\ [][NextReset]_vars

\* Two instances of the realtime build, either of which may be unmounted.
NextTeardown ==
    \/ \E c \in Clients : FbMount(c)
    \/ \E c \in Clients : FbOnValue(c)
    \/ \E c \in Clients : FbSyncEffect(c)
    \/ \E c \in Clients : FbSetResolved(c)
    \/ \E c \in Clients : FbClickToggle(c)
    \/ \E c \in Clients : FbUnmount(c)
    \/ \E c \in Clients : FbOnValueUnmounted(c)
    \/ Tick

SpecTeardown == InitFb /\ [][NextTeardown]_vars

\* One instance of the realtime build, with the search box.
InitFbSolo == Start /\ csv = SearchFiles

NextFbSolo ==
    \/ FbMount(1)
    \/ FbOnValue(1)
    \/ FbOnError(1)
    \/ FbSyncEffect(1)
    \/ FbSetResolved(1)
    \/ FbSetRejected(1)
    \/ FbClickToggle(1)
    \/ FbToggleMissing(1)
    \/ SetSearchQuery(1)
    \/ Tick

SpecFbSolo == InitFbSolo /\ [][NextFbSolo]_vars

\* Two tabs of the polling build.
InitPoll == Start /\ csv = SearchFiles

NextPoll ==
    \/ \E c \in Clients : PollMount(c)
    \/ \E c \in Clients : PollTick(c)
    \/ \E c \in Clients : PollSyncEffect(c)
    \/ \E c \in Clients : PollClickRow(c)
    \/ \E c \in Clients : PollClickDashboard(c)
    \/ \E c \in Clients : SetSearchQuery(c)
    \/ Tick

SpecPoll == InitPoll /\ [][NextPoll]_vars

\* One instance of the local-only build.
InitLocal == Start /\ csv \in {SearchFiles, ShirtFiles}

NextLocal ==
    \/ LocalMount(1)
    \/ LocalClickRow(1)
    \/ LocalClickShirt(1)
    \/ LocalClickDialog(1)
    \/ SetSearchQuery(1)

SpecLocal == InitLocal /\ [][NextLocal]_vars

\* The local-only build loading any pair of files of up to MaxRows rows each,
\* again and again: between two loads the operator toggles check-ins and
\* shirts, and the page is reloaded.
MaxRows == 2

RowsUpTo(rows, n) == UNION {[1..k -> rows] : k \in 0..n}

CsvInputs ==
    [participants : RowsUpTo({[Name |-> Al], [Name |-> Bo]}, MaxRows),
     staff        : RowsUpTo([Name : {Cy, Di}, ShirtNeeded : {"Yes", "No", ""}], MaxRows)]

InitBootstrap == Start /\ csv \in CsvInputs

NextBootstrap ==
    \/ LocalMount(1)
    \/ LocalClickRow(1)
    \/ LocalClickShirt(1)
    \/ LocalReload(1)

SpecBootstrap == InitBootstrap /\ [][NextBootstrap]_vars

----------------------------------------------------------------------------
(* Properties *)

\* The roster a document holds, and the roster an instance shows.
RosterIn(document) ==
    <<OrElse(Get(document).participants, <<>>), OrElse(Get(document).staff, <<>>)>>

RosterOf(c) == <<participants[c], staff[c]>>

\* A value event is handed to the onValue callback of instance c in this step.
Delivered(c) == notified[c] /\ ~notified'[c] /\ listening'[c]

\* The oldest pending set() of instance c returns in this step.
Returned(c) == inflight[c] # <<>> /\ inflight'[c] = Tail(inflight[c])

\* Nothing is pending anywhere: no set(), no value event, no effect.
Settled ==
    \A c \in Clients : inflight[c] = <<>> /\ ~notified[c] /\ ~effectDue[c]

\* C1: on an inbound value event, an instance that has a lastSync and is
\* handed a snapshot whose timestamp is not greater than it keeps its
\* participants, staff and lastSync.
C1_KeepLocal ==
    [][\A c \in Clients :
          (/\ Delivered(c)
           /\ remote # None
           /\ lastSync[c] # NoTime
           /\ Get(remote).timestamp <= lastSync[c])
          => /\ participants'[c] = participants[c]
             /\ staff'[c] = staff[c]
             /\ lastSync'[c] = lastSync[c]]_vars

\* C2: on an inbound value event with a snapshot newer than lastSync (or with
\* no lastSync yet), participants and staff become exactly the snapshot's two
\* collections and lastSync becomes the snapshot's timestamp.
C2_AdoptWholesale ==
    [][\A c \in Clients :
          (/\ Delivered(c)
           /\ remote # None
           /\ (lastSync[c] = NoTime \/ Get(remote).timestamp > lastSync[c]))
          => /\ participants'[c] = (IF Get(remote).participants = None
                                    THEN <<>> ELSE Get(Get(remote).participants))
             /\ staff'[c] = (IF Get(remote).staff = None
                             THEN <<>> ELSE Get(Get(remote).staff))
             /\ lastSync'[c] = Get(remote).timestamp]_vars

\* An instance that had pushed Al as checked in has just taken over a newer
\* snapshot in which Al is not checked in.
C2_Adopted ==
    \E c \in Clients :
       /\ listening[c] /\ ~notified[c] /\ effectDue[c]
       /\ remote # None
       /\ lastSync[c] = Get(remote).timestamp
       /\ lastSync[c] > 1
       /\ RosterOf(c) = RosterIn(remote)
       /\ ~participants[c][1].checkedIn
       /\ localStorage[c]["RoseCityCheckin_participants"] # None
       /\ parse(localStorage[c]["RoseCityCheckin_participants"])[1].checkedIn

C4_Converges ==
    <>[](\A c \in Clients : RosterOf(c) = RosterIn(remote))

\* C5: when the sync effect runs for a loaded instance after a change of its
\* collections, the collections are written to the local cache, and a
\* snapshot of them stamped now is written to the remote when one is configured.
C5_WritePath ==
    [][\A c \in Clients :
          (effectDue[c] /\ ~effectDue'[c] /\ isLoaded[c])
          => /\ localStorage'[c]["RoseCityCheckin_participants"]
                   = Some([json |-> participants[c]])
             /\ localStorage'[c]["RoseCityCheckin_staff"] = Some([json |-> staff[c]])
             /\ firebaseDb[c] # NoDb
                  => /\ inflight'[c] # <<>>
                     /\ inflight'[c][Len(inflight'[c])] =
                           [participants |-> participants[c], staff |-> staff[c],
                            timestamp |-> now]]_vars

\* C6: while a set() is pending, and when it returns (resolved or rejected),
\* the local cache holds the collections of the latest snapshot the instance
\* built.
C6_CacheHoldsSnapshot ==
    /\ [](\A c \in Clients :
             inflight[c] # <<>>
             => /\ localStorage[c]["RoseCityCheckin_participants"]
                      = Some([json |-> inflight[c][Len(inflight[c])].participants])
                /\ localStorage[c]["RoseCityCheckin_staff"]
                      = Some([json |-> inflight[c][Len(inflight[c])].staff]))
    /\ [][\A c \in Clients :
             Returned(c)
             => /\ localStorage'[c]["RoseCityCheckin_participants"]
                      = Some([json |-> inflight[c][Len(inflight[c])].participants])
                /\ localStorage'[c]["RoseCityCheckin_staff"]
                      = Some([json |-> inflight[c][Len(inflight[c])].staff])]_vars

\* Every set() of an online instance was rejected (it never got a lastSync),
\* the last one carrying Al as checked in, and the cache has that roster.
C6_CachedAfterRejection ==
    \E c \in Clients :
       /\ firebaseDb[c] # NoDb /\ isLoaded[c] /\ ~effectDue[c]
       /\ inflight[c] = <<>>
       /\ lastSync[c] = NoTime
       /\ participants[c] # <<>> /\ participants[c][1].checkedIn
       /\ localStorage[c]["RoseCityCheckin_participants"]
              = Some([json |-> participants[c]])

C8_ToggleByName ==
    [][\A type \in {"participant", "staff"} :
          \A row \in 1..Len(LocalShown(1, type)) :
             LocalClickRowAt(1, type, row)
             => LET list == IF type = "participant" THEN participants[1] ELSE staff[1]
                    after == IF type = "participant" THEN participants'[1] ELSE staff'[1]
                    name == LocalShown(1, type)[row].Name
                IN  after = [i \in 1..Len(list) |->
                                IF list[i].Name = name
                                THEN [list[i] EXCEPT !.checkedIn = ~@]
                                ELSE list[i]]]_vars

C10_ShirtNeedsCheckIn ==
    [][/\ \A i \in 1..Len(participants[1]) :
             (/\ Len(participants'[1]) = Len(participants[1])
              /\ participants'[1][i].shirtProvided # participants[1][i].shirtProvided)
             => participants[1][i].checkedIn
       /\ \A i \in 1..Len(staff[1]) :
             (/\ Len(staff'[1]) = Len(staff[1])
              /\ staff'[1][i].shirtProvided # staff[1][i].shirtProvided)
             => staff[1][i].checkedIn]_vars

\* C11: no step changes shirtProvided of a staff record whose 'Shirt Needed'
\* is not 'Yes', and a loaded staff member with 'Shirt Needed' = 'No' has
\* shirtProvided = true in every state.
C11_NoShirtStaffUntouched ==
    /\ [][\A i \in 1..Len(staff[1]) :
             (Len(staff'[1]) = Len(staff[1]) /\ staff[1][i].ShirtNeeded # "Yes")
             => staff'[1][i] = [staff[1][i] EXCEPT !.checkedIn = staff'[1][i].checkedIn]]_vars
    /\ [](\A i \in 1..Len(staff[1]) :
             staff[1][i].ShirtNeeded = "No" => staff[1][i].shirtProvided)

\* The search box shows only Ob, who needs a shirt and is checked in, so the
\* shirt button of row 1 is enabled; row 1 of the collection is Di, who needs
\* none. Clicking it leaves this state as it is.
C11_ShirtClickOnNoShirtStaff ==
    /\ phase[1] = "run"
    /\ Len(staff[1]) = 2
    /\ staff[1][1].ShirtNeeded = "No"
    /\ Len(LocalShown(1, "staff")) = 1
    /\ LocalShown(1, "staff")[1].Name = Ob
    /\ LocalShirtButtonEnabled(1, "staff", 1)
    /\ staff[1][1].shirtProvided

\* The roster an instance holds right after a bootstrap from the document,
\* from its cache or from the CSV files.
BootstrappedFrom(c) ==
    LET cachedP == localStorage[c]["RoseCityCheckin_participants"]
        cachedS == localStorage[c]["RoseCityCheckin_staff"]
    IN  {RosterIn(remote) : x \in remote}
          \cup {<<parse(cachedP), parse(cachedS)>> : x \in {1} \cap
                    (IF cachedP # None /\ cachedS # None THEN {1} ELSE {})}
          \cup {<<FbParsed(csv.participants), FbParsed(csv.staff)>>}

\* C12: isLoaded is false before the mount effect, a step makes it true only
\* by giving the instance the roster of the document, of its cache or of the
\* CSV files, and no step makes it false again.
C12_IsLoadedMonotonic ==
    /\ [](\A c \in Clients : phase[c] = "new" => ~isLoaded[c])
    /\ [][\A c \in Clients : isLoaded[c] => isLoaded'[c]]_vars
    /\ [][\A c \in Clients :
            (~isLoaded[c] /\ isLoaded'[c])
            => <<participants'[c], staff'[c]>> \in BootstrappedFrom(c)]_vars

\* The CSV read of an instance failed, so it is still not loaded, while the
\* other instance is loaded and has toggled and pushed since.
C12_FailedReadNotLoaded ==
    \E c \in Clients :
        /\ phase[c] = "run" /\ ~isLoaded[c] /\ ~notified[c] /\ ~effectDue[c]
        /\ \E d \in Clients \ {c} : isLoaded[d] /\ lastSync[d] # NoTime

\* Instance c runs loadLocalData in this step and finds both cached collections.
CacheAdopted(c) ==
    /\ \/ listening[c] /\ ~listening'[c]
       \/ phase[c] = "new" /\ phase'[c] = "run" /\ firebaseDb'[c] = NoDb
    /\ localStorage[c]["RoseCityCheckin_participants"] # None
    /\ localStorage[c]["RoseCityCheckin_staff"] # None

\* C13: after every step in which an instance adopts the document or its
\* cached collections, or in which a set() of its own replaces the document,
\* the instance has a lastSync.
C13_LastSyncSet ==
    [][\A c \in Clients :
         \/ Delivered(c) /\ remote # None
         \/ Returned(c) /\ remote' # remote
         \/ CacheAdopted(c)
         => lastSync'[c] # NoTime]_vars

\* The roster of the CSV files as loadFromCSV builds it.
CsvRoster == <<FbParsed(csv.participants), FbParsed(csv.staff)>>

\* Instance c, subscribed and never synced, has just been given the roster of
\* the CSV files; its sync effect has not run yet.
C14_Bootstrapped(c) ==
    /\ listening[c] /\ isLoaded[c] /\ effectDue[c] /\ lastSync[c] = NoTime
    /\ RosterOf(c) = CsvRoster

C15_ParticipantsTagged(list, rows) ==
    /\ Len(list) = Len(rows)
    /\ \A i \in 1..Len(rows) :
          /\ list[i].Name = rows[i].Name
          /\ list[i].checkedIn = FALSE
          /\ list[i].shirtProvided = FALSE

C15_StaffTagged(list, rows) ==
    /\ Len(list) = Len(rows)
    /\ \A i \in 1..Len(rows) :
          /\ list[i].Name = rows[i].Name
          /\ list[i].ShirtNeeded = rows[i].ShirtNeeded
          /\ list[i].checkedIn = FALSE
          /\ list[i].shirtProvided = (rows[i].ShirtNeeded = "No")

\* C15: every run of the mount effect that reads the files, the first as
\* well as one after toggles and a reload, leaves the same roster: the rows
\* of the files in their order, each with checkedIn = false, participants
\* with shirtProvided = false, staff with shirtProvided = true exactly when
\* 'Shirt Needed' is 'No'. A run that cannot read them leaves no roster.
C15_BootstrapDefaults ==
    [][(phase[1] = "new" /\ phase'[1] = "run")
        => \/ /\ C15_ParticipantsTagged(participants'[1], csv.participants)
              /\ C15_StaffTagged(staff'[1], csv.staff)
           \/ participants'[1] = <<>> /\ staff'[1] = <<>>]_vars

\* A loaded roster of two participants and of two staff members, the first
\* needing no shirt and the second needing one, nobody checked in.
C15_Bootstrapped ==
    /\ phase[1] = "run"
    /\ Len(participants[1]) = 2 /\ Len(staff[1]) = 2
    /\ staff[1][1].ShirtNeeded = "No" /\ staff[1][1].shirtProvided
    /\ staff[1][2].ShirtNeeded = "Yes" /\ ~staff[1][2].shirtProvided
    /\ \A i \in 1..2 : ~participants[1][i].checkedIn /\ ~staff[1][i].checkedIn
    /\ \A i \in 1..2 : ~participants[1][i].shirtProvided

\* Nobody of the roster of instance c is checked in.
AllUnchecked(c) ==
    /\ \A i \in 1..Len(participants[c]) : ~participants[c][i].checkedIn
    /\ \A i \in 1..Len(staff[c]) : ~staff[c][i].checkedIn

\* The page of instance c is loaded again in this step.
Reloaded(c) == phase[c] = "run" /\ phase'[c] = "new"

\* C16: the step of a reset leaves neither cached collection on the device
\* and, when the instance had a database handle, no document; the page that
\* is loaded next has no cache until it has run its own sync effect, and its
\* load, by a value event that finds no document or by the local path when
\* the database cannot be initialised, gives it the roster of the CSV files
\* with nobody checked in (or nothing, when the files cannot be read).
C16_ResetClears ==
    /\ [][\A c \in Clients :
            Reloaded(c)
            => /\ localStorage'[c]["RoseCityCheckin_participants"] = None
               /\ localStorage'[c]["RoseCityCheckin_staff"] = None
               /\ firebaseDb[c] # NoDb => remote' = None]_vars
    /\ [](\A c \in Clients :
            (phase[c] = "new" \/ ~isLoaded[c])
            => /\ localStorage[c]["RoseCityCheckin_participants"] = None
               /\ localStorage[c]["RoseCityCheckin_staff"] = None)
    /\ [][\A c \in Clients :
            \/ Delivered(c) /\ remote = None
            \/ phase[c] = "new" /\ phase'[c] = "run" /\ firebaseDb'[c] = NoDb
            => \/ isLoaded'[c] /\ RosterOf(c)' = CsvRoster /\ AllUnchecked(c)'
               \/ UNCHANGED <<participants, staff, isLoaded>>]_vars

\* An instance was reset after the other one had synced a check-in: there is
\* no document, the other instance still shows its check-in, and the reset
\* instance has loaded again, from the CSV files, and has not pushed yet.
C16_LoadedAfterReset ==
    \E c \in Clients : \E d \in Clients \ {c} :
        /\ remote = None
        /\ lastSync[d] # NoTime /\ ~AllUnchecked(d)
        /\ phase[c] = "run" /\ isLoaded[c] /\ effectDue[c]
        /\ RosterOf(c) = CsvRoster /\ lastSync[c] = NoTime

\* C17: an instance whose database could not be initialised, once loaded and
\* with its sync effect run, has its current collections in the local cache,
\* so that loadLocalData would give them back.
C17_OfflineCached ==
    [](\A c \in Clients :
         (phase[c] = "run" /\ firebaseDb[c] = NoDb /\ isLoaded[c] /\ ~effectDue[c])
         => /\ localStorage[c]["RoseCityCheckin_participants"] # None
            /\ localStorage[c]["RoseCityCheckin_staff"] # None
            /\ parse(localStorage[c]["RoseCityCheckin_participants"]) = participants[c]
            /\ parse(localStorage[c]["RoseCityCheckin_staff"]) = staff[c])

\* The listener of instance c reports an error, or its mount effect cannot
\* initialise the database, in this step.
ReadFailed(c) ==
    \/ listening[c] /\ ~listening'[c]
    \/ phase[c] = "new" /\ phase'[c] = "run" /\ firebaseDb'[c] = NoDb

\* C18: a step in which the listener reports an error or the database cannot
\* be initialised raises nothing; it gives the instance its two cached
\* collections when both are cached, and otherwise the roster of the CSV
\* files (or nothing, when they cannot be read).
C18_ReadFailureFallsBack ==
    [][\A c \in Clients :
         ReadFailed(c)
         => /\ thrown'[c] = thrown[c]
            /\ LET savedParticipants == localStorage[c]["RoseCityCheckin_participants"]
                   savedStaff == localStorage[c]["RoseCityCheckin_staff"]
               IN  IF savedParticipants # None /\ savedStaff # None
                   THEN /\ isLoaded'[c]
                        /\ participants'[c] = parse(savedParticipants)
                        /\ staff'[c] = parse(savedStaff)
                   ELSE \/ isLoaded'[c] /\ RosterOf(c)' = CsvRoster
                        \/ UNCHANGED <<participants, staff, isLoaded>>]_vars

\* After a listener error the instance shows the cached roster, in which
\* somebody is checked in, and no error was raised.
C18_CacheAfterListenerError ==
    \E c \in Clients :
        /\ phase[c] = "run" /\ firebaseDb[c] # NoDb /\ ~listening[c]
        /\ isLoaded[c] /\ effectDue[c] /\ ~thrown[c]
        /\ localStorage[c]["RoseCityCheckin_participants"] # None
        /\ localStorage[c]["RoseCityCheckin_staff"] # None
        /\ participants[c] = parse(localStorage[c]["RoseCityCheckin_participants"])
        /\ staff[c] = parse(localStorage[c]["RoseCityCheckin_staff"])
        /\ ~AllUnchecked(c)

\* The shared item of the polling build and the roster of the CSV files as
\* checkServerData builds it.
PollCloud == localStorage[Browser][STORAGE_KEY]
PollCsvRoster == <<PollParsed(csv.participants), PollParsed(csv.staff)>>

\* The ways a step may change what instance c holds: it adopts the shared
\* snapshot, it loads the CSV files, or one of its toggles flips a record.
PollAdopted(c) ==
    /\ PollCloud # None
    /\ RosterOf(c)' = <<parse(PollCloud).participants, parse(PollCloud).staff>>
    /\ lastSync'[c] = parse(PollCloud).timestamp
    /\ isLoaded'[c]

PollBootstrapped(c) == RosterOf(c)' = PollCsvRoster /\ isLoaded'[c]

PollToggled(c) ==
    /\ lastSync'[c] = lastSync[c] /\ isLoaded'[c] = isLoaded[c]
    /\ Len(participants'[c]) = Len(participants[c])
    /\ Len(staff'[c]) = Len(staff[c])
    /\ \A i \in 1..Len(participants[c]) : participants'[c][i].Name = participants[c][i].Name
    /\ \A i \in 1..Len(staff[c]) : staff'[c][i].Name = staff[c][i].Name

\* C19: a mounted instance always has its timer, and its participants,
\* staff, lastSync and isLoaded change only by a pull that succeeded (the
\* snapshot adopted or the CSV files loaded), by a toggle or by a push that
\* stamps lastSync; a pull that fails therefore changes none of them, and the
\* next tick finds the instance as the failed one did.
C19_FailedPullChangesNothing ==
    /\ [](\A c \in Clients : phase[c] = "run" => listening[c])
    /\ [][\A c \in Clients :
            /\ RosterOf(c)' # RosterOf(c)
                 => PollAdopted(c) \/ PollBootstrapped(c) \/ PollToggled(c)
            /\ lastSync'[c] # lastSync[c] => PollAdopted(c) \/ lastSync'[c] = now
            /\ isLoaded'[c] # isLoaded[c]
                 => isLoaded'[c] /\ (PollAdopted(c) \/ PollBootstrapped(c))]_vars

\* The first pull of an instance failed although a snapshot with a roster
\* was there to adopt: the instance is mounted, its timer runs, and it holds
\* nothing yet.
C19_FirstPullFailed ==
    \E c \in Clients :
        /\ phase[c] = "run" /\ listening[c] /\ ~isLoaded[c] /\ lastSync[c] = NoTime
        /\ RosterOf(c) = << <<>>, <<>> >>
        /\ PollCloud # None /\ parse(PollCloud).participants # <<>>

\* C20: an unmounted instance has no subscription, and no value event is
\* handed to its callback.
C20_TornDown ==
    /\ [](\A c \in Clients : phase[c] = "gone" => ~listening[c])
    /\ [][\A c \in Clients : phase[c] = "gone" => ~Delivered(c)]_vars

\* C21: while the shared snapshot declares instance c as its origin, no step
\* changes c's lastSync, changes its collections otherwise than by one of
\* its toggles, or makes its sync effect due without such a change.
C21_IgnoresOwnWrite ==
    [][\A c \in Clients :
         (/\ PollCloud # None
          /\ parse(PollCloud).sessionId = SESSION_ID(c)
          /\ phase[c] = "run" /\ ~effectDue[c])
         => /\ lastSync'[c] = lastSync[c]
            /\ RosterOf(c)' # RosterOf(c) => PollToggled(c)
            /\ effectDue'[c] => RosterOf(c)' # RosterOf(c)]_vars

\* Instance c tries to load the CSV files in this step: a value event finds
\* no document, or the local path finds no cached collections.
CsvTried(c) ==
    \/ Delivered(c) /\ remote = None
    \/ /\ ReadFailed(c)
       /\ \/ localStorage[c]["RoseCityCheckin_participants"] = None
          \/ localStorage[c]["RoseCityCheckin_staff"] = None

C23_Contains(name, q) ==
    \E k \in 0..(Len(name) - Len(q)) :
       \A j \in 1..Len(q) : Lower(name[k + j]) = Lower(q[j])

C23_Matching(list, q) ==
    LET Wanted(person) == C23_Contains(person.Name, q) IN SelectSeq(list, Wanted)

\* C23: a step that changes the search query of an instance changes nothing
\* else, so it makes no effect due and writes nothing; and the list shown is
\* always the records of the collection, in its order, whose Name contains
\* the query letter case aside.
C23_SearchIsPureRead ==
    /\ [][\A c \in Clients :
            searchQuery'[c] # searchQuery[c]
            => UNCHANGED <<participants, staff, isLoaded, lastSync, effectDue, thrown,
                           localStorage, remote, inflight>>]_vars
    /\ [](\A c \in Clients :
            /\ PollShown(c, "participant") = C23_Matching(participants[c], searchQuery[c])
            /\ PollShown(c, "staff") = C23_Matching(staff[c], searchQuery[c]))

\* An instance searching for "O" is shown Bo alone of its two participants,
\* and its last push is the shared snapshot.
C23_Searching ==
    \E c \in Clients :
        /\ searchQuery[c] = <<"O">> /\ ~effectDue[c] /\ isLoaded[c]
        /\ Len(participants[c]) = 2
        /\ Len(PollShown(c, "participant")) = 1
        /\ PollShown(c, "participant")[1].Name = Bo
        /\ PollCloud # None /\ parse(PollCloud).timestamp = lastSync[c]

\* The instance holds exactly the document: its roster and its timestamp.
C24_HoldsDocument(c) ==
    /\ remote # None
    /\ RosterOf(c) = RosterIn(remote)
    /\ lastSync[c] = Get(remote).timestamp

\* C24: adopting a snapshot does not by itself cause a push: the sync effect
\* of an instance that holds exactly the document (roster and timestamp)
\* queues no set(), so that after the last operator action the instances
\* stop pushing.
C24_AdoptionDoesNotPush ==
    [][\A c \in Clients :
          (effectDue[c] /\ ~effectDue'[c] /\ C24_HoldsDocument(c))
          => inflight'[c] = inflight[c]]_vars

\* The instance has loaded and the shared item holds nothing newer for it.
C25_NothingNewer(c) ==
    /\ phase[c] = "run" /\ ~effectDue[c]
    /\ isLoaded[c] /\ lastSync[c] # NoTime
    /\ PollCloud = None \/ parse(PollCloud).timestamp <= lastSync[c]

\* C25: while a loaded instance finds no snapshot, or none newer than its
\* lastSync, no step other than a toggle of its own writes its participants,
\* staff or lastSync or makes its sync effect due: a tick in that state
\* adopts nothing, loads nothing and pushes nothing.
C25_TickLeavesLoadedAlone ==
    [][\A c \in Clients :
          C25_NothingNewer(c)
          => /\ lastSync'[c] = lastSync[c]
             /\ RosterOf(c)' # RosterOf(c) => PollToggled(c)
             /\ effectDue'[c] => RosterOf(c)' # RosterOf(c)]_vars

\* C26: when the files hold at least one record, the shared item never
\* holds a snapshot whose participants and staff are both empty.
C26_NoEmptySnapshot ==
    (PollCsvRoster # << <<>>, <<>> >> /\ PollCloud # None)
    => (parse(PollCloud).participants # <<>> \/ parse(PollCloud).staff # <<>>)

\* The document, if there is one, has nobody checked in.
C27_NobodyCheckedIn(document) ==
    document # None
    => /\ \A i \in 1..Len(RosterIn(document)[1]) : ~RosterIn(document)[1][i].checkedIn
       /\ \A i \in 1..Len(RosterIn(document)[2]) : ~RosterIn(document)[2][i].checkedIn

\* C27: a reset is not undone by an instance that has not observed it yet:
\* while the document is deleted and the value event that says so is still
\* waiting for a loaded instance, a set() of that instance that returns
\* stores no check-in.
C27_ResetStands ==
    [][\A d \in Clients :
          (remote = None /\ notified[d] /\ isLoaded[d] /\ Returned(d))
          => C27_NobodyCheckedIn(remote')]_vars

\* The records of instance c that a step changes, by collection and index.
C28_Changed(c) ==
    {<<"participant", i>> : i \in {j \in 1..Len(participants[c]) :
                                      participants'[c][j] # participants[c][j]}}
    \cup {<<"staff", i>> : i \in {j \in 1..Len(staff[c]) : staff'[c][j] # staff[c][j]}}

C28_Record(c, at) == IF at[1] = "participant" THEN participants[c][at[2]] ELSE staff[c][at[2]]

\* C28: a step of a running page that changes its roster keeps the length of
\* both collections and isLoaded and changes one record only, in one flag
\* only (checkedIn for a check-in toggle, shirtProvided for a shirt toggle),
\* which it negates; so a check-in toggle leaves every Name, every other
\* field, every other record and the other collection as they were. And
\* toggling the same index twice gives back the collection.
C28_ToggleFrame ==
    /\ [][\A c \in Clients :
            (phase[c] = "run" /\ phase'[c] = "run" /\ RosterOf(c)' # RosterOf(c))
            => /\ Len(participants'[c]) = Len(participants[c])
               /\ Len(staff'[c]) = Len(staff[c])
               /\ isLoaded'[c] = isLoaded[c]
               /\ Cardinality(C28_Changed(c)) = 1
               /\ \A at \in C28_Changed(c) :
                     \/ C28_Record(c, at)' = [C28_Record(c, at) EXCEPT !.checkedIn = ~@]
                     \/ C28_Record(c, at)' = [C28_Record(c, at) EXCEPT !.shirtProvided = ~@]]_vars
    /\ [](\A c \in Clients :
            /\ \A i \in 1..Len(participants[c]) :
                  FlipCheckedIn(FlipCheckedIn(participants[c], i), i) = participants[c]
            /\ \A i \in 1..Len(staff[c]) :
                  FlipCheckedIn(FlipCheckedIn(staff[c], i), i) = staff[c])

\* Check-in toggles have acted on both collections: the second participant
\* and the first member of staff are checked in, the first participant is not.
C28_Toggled ==
    \E c \in Clients :
        /\ phase[c] = "run"
        /\ Len(participants[c]) = 2 /\ Len(staff[c]) >= 1
        /\ ~participants[c][1].checkedIn /\ participants[c][2].checkedIn
        /\ staff[c][1].checkedIn

\* The staff of instance c who need a shirt, by index.
C29_StaffNeeding(c) == {i \in 1..Len(staff[c]) : staff[c][i].ShirtNeeded = "Yes"}

\* C29: on every render the dashboard's numbers agree: in each collection the
\* checked-in and the not-checked-in add up to the total and the checked-in
\* count lies between 0 and the total; shirts needed is the number of
\* participants plus the number of staff with 'Shirt Needed' = 'Yes', and
\* shirts given never exceeds it.
C29_MetricsConsistent ==
    \A c \in Clients :
        /\ checkedInParticipants(c) + Len(notCheckedInParticipants(c)) = totalParticipants(c)
        /\ checkedInParticipants(c) \in 0..totalParticipants(c)
        /\ checkedInStaff(c) + Len(notCheckedInStaff(c)) = totalStaff(c)
        /\ checkedInStaff(c) \in 0..totalStaff(c)
        /\ totalShirtsNeeded(c) = Len(participants[c]) + Cardinality(C29_StaffNeeding(c))
        /\ totalShirtsGiven(c) \in 0..totalShirtsNeeded(c)

\* Everybody who needs a shirt has one, on a roster with a member of staff
\* who needs none: given = needed = 3 of 4 people.
C29_AllShirtsGiven ==
    \E c \in Clients :
        /\ phase[c] = "run"
        /\ totalShirtsNeeded(c) = 3 /\ totalShirtsGiven(c) = 3
        /\ totalParticipants(c) + totalStaff(c) = 4
        /\ checkedInParticipants(c) = 2 /\ checkedInStaff(c) >= 1

====
